---- MODULE Spec2Model ----
(***************************************************************************)
(* Layer storage service of deploy/api/app: the file-backed record store   *)
(* (database.py), the bounding-box walk (calculate_bounds) and the upload, *)
(* get, list and delete handlers of routers/layers.py.                     *)
(*                                                                         *)
(* JSON values are tagged records [k, v]: k is the Python type the json    *)
(* module produces ("null", "num", "str", "arr", "obj") and v the payload  *)
(* (a sequence for a list, a record keyed by member name for a dict).      *)
(* A Python call is modelled by its outcome [exc, val]: exc = "none" and   *)
(* the returned value, or the name of the exception it raises.             *)
(***************************************************************************)
EXTENDS Integers, Sequences, FiniteSets, TLC

VARIABLES
    geojson_files,  \* LAYERS_DIR/<id>.geojson : layer id -> file
    meta_files,     \* LAYERS_DIR/<id>.meta.json : layer id -> file
    resp,           \* the response of the last completed request
    generated,      \* history: how often generate_layer_id returned each id
    created,        \* history: number of successful uploads
    removed,        \* history: number of successful deletes
    live,           \* history: ids uploaded with success and not deleted since
    arg_features,   \* calculate_bounds under test: its argument
    ret_bounds,     \* calculate_bounds under test: its outcome
    get_req,        \* an in-flight GET /layers/{id}, step by step
    del_req         \* an in-flight DELETE /layers/{id}, step by step

vars == <<geojson_files, meta_files, resp, generated, created, removed, live,
          arg_features, ret_bounds, get_req, del_req>>

store_vars == <<geojson_files, meta_files, resp, generated, created, removed,
                live>>
bounds_vars == <<arg_features, ret_bounds>>
race_vars == <<get_req, del_req>>

----------------------------------------------------------------------------
(* Bounds of the model *)

NumPrefix == 2      \* distinct 8-character prefixes a uuid can have
MaxUploads == 2     \* uploads that reach save_layer in one behaviour
MaxTick == 1        \* the wall clock reads 0..MaxTick half seconds
MaxCoord == 1       \* finite ordinates of the generated coordinate trees
MaxDepth == 2       \* nesting levels above a leaf in the generated trees

----------------------------------------------------------------------------
(* JSON values as Python sees them *)

JNull == [k |-> "null", v |-> 0]
JNum(n) == [k |-> "num", v |-> n]
JStr(s) == [k |-> "str", v |-> s]
JArr(s) == [k |-> "arr", v |-> s]
JObj(f) == [k |-> "obj", v |-> f]
EmptyObj == [m \in {} |-> JNull]

\* float('inf') and float('-inf'): above and below every other number.
\* json.loads yields float('inf') for a literal such as 1e999.
PosInf == 1000
NegInf == 0 - PosInf

Ok(val) == [exc |-> "none", val |-> val]
Raise(e) == [exc |-> e, val |-> JNull]

\* bool(x) of a JSON value
Truthy(x) ==
    CASE x.k = "null" -> FALSE
      [] x.k = "num" -> x.v # 0
      [] x.k = "str" -> x.v # ""
      [] x.k = "arr" -> Len(x.v) > 0
      [] x.k = "obj" -> DOMAIN x.v # {}

\* x.get(key, default): only a dict has the method
PyGet(x, key, default) ==
    IF x.k # "obj" THEN Raise("AttributeError")
    ELSE IF key \in DOMAIN x.v THEN Ok(x.v[key])
    ELSE Ok(default)

\* len(x)
PyLen(x) ==
    CASE x.k = "arr" -> Ok(Len(x.v))
      [] x.k = "str" -> Ok(Len(x.v))
      [] x.k = "obj" -> Ok(Cardinality(DOMAIN x.v))
      [] OTHER -> Raise("TypeError")

Min2(a, b) == IF b < a THEN b ELSE a
Max2(a, b) == IF b > a THEN b ELSE a

----------------------------------------------------------------------------
(* calculate_bounds *)

NoBounds == <<>>

\* the accumulators min_lng, min_lat, max_lng, max_lat as first seeded
SeedAcc == [min_lng |-> PosInf, min_lat |-> PosInf,
            max_lng |-> NegInf, max_lat |-> NegInf]

RECURSIVE process_coords(_, _)
RECURSIVE process_children(_, _, _)

\* for coord in coords: process_coords(coord), from the i-th child on
process_children(items, i, acc) ==
    IF i > Len(items) THEN Ok(acc)
    ELSE LET r == process_coords(items[i], acc)
         IN IF r.exc # "none" THEN r
            ELSE process_children(items, i + 1, r.val)

\* the nested function process_coords; acc holds the nonlocal accumulators
process_coords(coords, acc) ==
    CASE coords.k \in {"null", "num"} -> Raise("TypeError")
      [] coords.k = "obj" -> Raise("KeyError")
      [] coords.k = "str" ->
            IF coords.v = "" THEN Raise("IndexError")
            ELSE Raise("RecursionError")
      [] coords.k = "arr" ->
            IF Len(coords.v) = 0 THEN Raise("IndexError")
            ELSE IF coords.v[1].k = "num"
            THEN IF Len(coords.v) < 2 THEN Raise("IndexError")
                 ELSE IF coords.v[2].k # "num" THEN Raise("TypeError")
                 ELSE LET lng == coords.v[1].v
                          lat == coords.v[2].v
                      IN Ok([min_lng |-> Min2(acc.min_lng, lng),
                             min_lat |-> Min2(acc.min_lat, lat),
                             max_lng |-> Max2(acc.max_lng, lng),
                             max_lat |-> Max2(acc.max_lat, lat)])
            ELSE process_children(coords.v, 1, acc)

\* one iteration of "for feature in features"
process_feature(feature, acc) ==
    LET geom == PyGet(feature, "geometry", JObj(EmptyObj))
    IN IF geom.exc # "none" THEN geom
       ELSE LET coords == PyGet(geom.val, "coordinates", JNull)
            IN IF coords.exc # "none" THEN coords
               ELSE IF Truthy(coords.val)
                    THEN process_coords(coords.val, acc)
                    ELSE Ok(acc)

RECURSIVE process_features(_, _, _)
process_features(items, i, acc) ==
    IF i > Len(items) THEN Ok(acc)
    ELSE LET r == process_feature(items[i], acc)
         IN IF r.exc # "none" THEN r
            ELSE process_features(items, i + 1, r.val)

calculate_bounds(features) ==
    IF ~Truthy(features) THEN Ok(NoBounds)
    ELSE CASE features.k = "num" -> Raise("TypeError")
           [] features.k \in {"str", "obj"} -> Raise("AttributeError")
           [] features.k = "arr" ->
                LET r == process_features(features.v, 1, SeedAcc)
                IN IF r.exc # "none" THEN r
                   ELSE IF r.val.min_lng = PosInf THEN Ok(NoBounds)
                   ELSE Ok(<<r.val.min_lng, r.val.min_lat,
                             r.val.max_lng, r.val.max_lat>>)

----------------------------------------------------------------------------
(* Files of LAYERS_DIR *)

\* a path with no file, a file holding the complete JSON text of doc, and a
\* file whose write stopped part-way (its text no longer parses)
Absent == [state |-> "absent", doc |-> JNull]
Complete(doc) == [state |-> "complete", doc |-> doc]
Partial == [state |-> "partial", doc |-> JNull]

\* uuid.uuid4(): a random value, here its first 8 characters and the rest
Uuids == (1..NumPrefix) \X {"-0000", "-ffff"}

\* str(uuid.uuid4())[:8] keeps the prefix and drops the rest
generate_layer_id(uuid) == uuid[1]

LayerIds == 1..NumPrefix

\* with open(path, 'r') as f: return json.load(f)
read_json(file) ==
    CASE file.state = "absent" -> Raise("FileNotFoundError")
      [] file.state = "partial" -> Raise("JSONDecodeError")
      [] file.state = "complete" -> Ok(file.doc)

----------------------------------------------------------------------------
(* datetime.now().isoformat() *)

\* The wall clock reads an instant counted in half seconds.  isoformat()
\* writes the seconds as two digits and appends ".5" (".500000") only when
\* the microsecond part is not zero.  A text is a sequence of character
\* codes, compared as Python compares str.
DigitZero == 48
FullStop == 46
Instants == 0..MaxTick

isoformat(t) ==
    LET sec == t \div 2
        whole == <<DigitZero + (sec \div 10), DigitZero + (sec % 10)>>
    IN IF t % 2 = 0 THEN whole
       ELSE whole \o <<FullStop, DigitZero + 5>>

RECURSIVE StrLess(_, _)
StrLess(a, b) ==
    IF Len(b) = 0 THEN FALSE
    ELSE IF Len(a) = 0 THEN TRUE
    ELSE IF a[1] # b[1] THEN a[1] < b[1]
    ELSE StrLess(Tail(a), Tail(b))

----------------------------------------------------------------------------
(* save_layer *)

\* what can go wrong with the two writes of save_layer
IoOutcomes == {"ok", "raw_write", "meta_write"}

\* features[0].get('geometry', {}).get('type') when features is not empty
first_geometry_type(features) ==
    CASE features.k = "obj" -> Raise("KeyError")
      [] features.k = "str" -> Raise("AttributeError")
      [] features.k = "arr" ->
            LET first_geom == PyGet(features.v[1], "geometry", JObj(EmptyObj))
            IN IF first_geom.exc # "none" THEN first_geom
               ELSE PyGet(first_geom.val, "type", JNull)
      [] OTHER -> Raise("TypeError")

\* the metadata save_layer computes between its two writes
layer_metadata(layer_id, geojson, now) ==
    LET features == PyGet(geojson, "features", JArr(<<>>)).val
        feature_count == PyLen(features)
        geometry_type == IF Truthy(features)
                         THEN first_geometry_type(features)
                         ELSE Ok(JNull)
        bounds == calculate_bounds(features)
    IN IF feature_count.exc # "none" THEN feature_count
       ELSE IF geometry_type.exc # "none" THEN geometry_type
       ELSE IF bounds.exc # "none" THEN bounds
       ELSE Ok([id |-> layer_id,
                feature_count |-> feature_count.val,
                geometry_type |-> geometry_type.val,
                bounds |-> bounds.val,
                created_at |-> isoformat(now)])

\* save_layer from "Save metadata" on: g1 holds the GeoJSON file just written
save_metadata(g1, mfiles, layer_id, metadata, io) ==
    IF metadata.exc # "none"
    THEN [exc |-> metadata.exc, val |-> JNull, g |-> g1, m |-> mfiles]
    ELSE IF io = "meta_write"
    THEN [exc |-> "OSError", val |-> JNull, g |-> g1,
          m |-> [mfiles EXCEPT ![layer_id] = Partial]]
    ELSE [exc |-> "none", val |-> metadata.val, g |-> g1,
          m |-> [mfiles EXCEPT ![layer_id] = Complete(metadata.val)]]

\* save_layer: the outcome and the two directories of files afterwards
save_layer(gfiles, mfiles, layer_id, geojson, now, io) ==
    IF io = "raw_write"
    THEN [exc |-> "OSError", val |-> JNull,
          g |-> [gfiles EXCEPT ![layer_id] = Partial], m |-> mfiles]
    ELSE save_metadata([gfiles EXCEPT ![layer_id] = Complete(geojson)],
                       mfiles, layer_id,
                       layer_metadata(layer_id, geojson, now), io)

----------------------------------------------------------------------------
(* get_layer, get_layer_geojson, list_layers, delete_layer of database.py *)

\* None is JNull
db_get_layer(mfiles, layer_id) ==
    IF mfiles[layer_id].state = "absent" THEN Ok(JNull)
    ELSE read_json(mfiles[layer_id])

db_get_layer_geojson(gfiles, layer_id) ==
    IF gfiles[layer_id].state = "absent" THEN Ok(JNull)
    ELSE read_json(gfiles[layer_id])

\* the stable sort of layers.sort(key=created_at, reverse=True), by insertion
RECURSIVE insert_desc(_, _)
insert_desc(sorted, layer) ==
    IF Len(sorted) = 0 THEN <<layer>>
    ELSE IF StrLess(Head(sorted).created_at, layer.created_at)
    THEN <<layer>> \o sorted
    ELSE <<Head(sorted)>> \o insert_desc(Tail(sorted), layer)

RECURSIVE sort_desc(_, _, _)
sort_desc(layers, i, sorted) ==
    IF i > Len(layers) THEN sorted
    ELSE sort_desc(layers, i + 1, insert_desc(sorted, layers[i]))

\* the orders in which LAYERS_DIR.glob('*.meta.json') can yield the files
GlobOrders(mfiles) ==
    LET present == {i \in LayerIds : mfiles[i].state # "absent"}
        n == Cardinality(present)
    IN {o \in [1..n -> present] : \A a, b \in 1..n : a # b => o[a] # o[b]}

\* list_layers without its sort: the layers in the order of the glob
db_list_layers_unsorted(mfiles, order) ==
    IF \E a \in 1..Len(order) : mfiles[order[a]].state = "partial"
    THEN Raise("JSONDecodeError")
    ELSE Ok([a \in 1..Len(order) |-> mfiles[order[a]].doc])

\* list_layers for one order of the glob
db_list_layers(mfiles, order) ==
    IF \E a \in 1..Len(order) : mfiles[order[a]].state = "partial"
    THEN Raise("JSONDecodeError")
    ELSE Ok(sort_desc([a \in 1..Len(order) |-> mfiles[order[a]].doc], 1, <<>>))

\* delete_layer with "elif" for its second test: the metadata file is
\* removed only when there was no GeoJSON file
db_delete_layer_elif(gfiles, mfiles, layer_id) ==
    [g |-> IF gfiles[layer_id].state # "absent"
           THEN [gfiles EXCEPT ![layer_id] = Absent] ELSE gfiles,
     m |-> IF gfiles[layer_id].state = "absent"
              /\ mfiles[layer_id].state # "absent"
           THEN [mfiles EXCEPT ![layer_id] = Absent] ELSE mfiles,
     deleted |-> gfiles[layer_id].state # "absent"
                 \/ mfiles[layer_id].state # "absent"]

\* delete_layer: the files afterwards and the flag it returns
db_delete_layer(gfiles, mfiles, layer_id) ==
    [g |-> IF gfiles[layer_id].state # "absent"
           THEN [gfiles EXCEPT ![layer_id] = Absent] ELSE gfiles,
     m |-> IF mfiles[layer_id].state # "absent"
           THEN [mfiles EXCEPT ![layer_id] = Absent] ELSE mfiles,
     deleted |-> gfiles[layer_id].state # "absent"
                 \/ mfiles[layer_id].state # "absent"]

----------------------------------------------------------------------------
(* Upload requests *)

Pt(x, y) == JArr(<<JNum(x), JNum(y)>>)
Pt3(x, y, z) == JArr(<<JNum(x), JNum(y), JNum(z)>>)
Geometry(type, coordinates) ==
    JObj([type |-> JStr(type), coordinates |-> coordinates])
Feature(geometry) ==
    JObj([type |-> JStr("Feature"), geometry |-> geometry,
          properties |-> JObj(EmptyObj)])
FeatureCollection(features) ==
    JObj([type |-> JStr("FeatureCollection"), features |-> JArr(features)])

\* {"type":"Point","coordinates":[10,20]}
PointDoc == Geometry("Point", Pt(10, 20))
\* a Feature whose position carries an altitude
FeatureDoc == Feature(Geometry("Point", Pt3(3, 4, 50)))
\* a collection of a polygon with the ring [[0,0],[0,5],[5,5],[5,0],[0,0]]
\* and an unlocated feature without geometry member
CollectionDoc ==
    FeatureCollection(<<
        Feature(Geometry("Polygon",
            JArr(<<JArr(<<Pt(0, 0), Pt(0, 5), Pt(5, 5), Pt(5, 0), Pt(0, 0)>>)>>))),
        JObj([type |-> JStr("Feature"), properties |-> JObj(EmptyObj)])>>)
\* {"type":"Polygon","coordinates":[[]]}: a ring without positions
EmptyRingDoc == Geometry("Polygon", JArr(<<JArr(<<>>)>>))
\* {"type":"Topology"}
TopologyDoc == JObj([type |-> JStr("Topology")])
\* [1, 2]
ArrayDoc == JArr(<<JNum(1), JNum(2)>>)

\* the bytes of an upload: whether they decode as UTF-8, whether the text is
\* JSON, and the value json.loads returns for it
Bytes(value) == [utf8 |-> TRUE, json |-> TRUE, value |-> value]
NotJson == [utf8 |-> TRUE, json |-> FALSE, value |-> JNull]
NotUtf8 == [utf8 |-> FALSE, json |-> FALSE, value |-> JNull]

AcceptedSuffixes == {".geojson", ".json"}

UploadRequests ==
    {[suffix |-> ".geojson", content |-> Bytes(d)] :
        d \in {PointDoc, FeatureDoc, CollectionDoc,
               EmptyRingDoc, TopologyDoc, ArrayDoc}}
    \cup {[suffix |-> ".geojson", content |-> c] : c \in {NotJson, NotUtf8}}
    \cup {[suffix |-> ".json", content |-> Bytes(PointDoc)],
          [suffix |-> ".txt", content |-> Bytes(PointDoc)]}

NoRequest == [suffix |-> "", content |-> NotUtf8]

----------------------------------------------------------------------------
(* routers/layers.py *)

\* the validation with a bare geometry put into the collection as it is,
\* without the Feature around it
wrap_geojson_bare(geojson) ==
    LET type == PyGet(geojson, "type", JNull)
    IN IF type.exc # "none" THEN type
       ELSE IF type.val = JStr("FeatureCollection") THEN Ok(geojson)
       ELSE IF type.val = JStr("Feature")
       THEN Ok(JObj([type |-> JStr("FeatureCollection"),
                     features |-> JArr(<<geojson>>)]))
       ELSE IF "coordinates" \in DOMAIN geojson.v
       THEN Ok(JObj([type |-> JStr("FeatureCollection"),
                     features |-> JArr(<<geojson>>)]))
       ELSE Raise("HTTPException400")

\* "Validate GeoJSON structure" of upload_layer
wrap_geojson(geojson) ==
    LET type == PyGet(geojson, "type", JNull)
    IN IF type.exc # "none" THEN type
       ELSE IF type.val = JStr("FeatureCollection") THEN Ok(geojson)
       ELSE IF type.val = JStr("Feature")
       THEN Ok(JObj([type |-> JStr("FeatureCollection"),
                     features |-> JArr(<<geojson>>)]))
       ELSE IF "coordinates" \in DOMAIN geojson.v
       THEN Ok(JObj([type |-> JStr("FeatureCollection"),
                     features |-> JArr(<<
                         JObj([type |-> JStr("Feature"),
                               geometry |-> geojson,
                               properties |-> JObj(EmptyObj)])>>)]))
       ELSE Raise("HTTPException400")

\* the except clauses of upload_layer: json.JSONDecodeError, then Exception
upload_except(exc) == IF exc = "JSONDecodeError" THEN 400 ELSE 500

\* upload_layer when it raises before save_layer is called
upload_failed(gfiles, mfiles, status, exc) ==
    [status |-> status, exc |-> exc, layer_id |-> 0, saved |-> FALSE,
     feature_count |-> 0, g |-> gfiles, m |-> mfiles]

\* upload_layer from db.save_layer's return or raise on; s is its outcome
upload_saved(layer_id, s) ==
    IF s.exc # "none"
    THEN [status |-> upload_except(s.exc), exc |-> s.exc,
          layer_id |-> layer_id, saved |-> FALSE,
          feature_count |-> 0, g |-> s.g, m |-> s.m]
    ELSE [status |-> 200, exc |-> "none",
          layer_id |-> layer_id, saved |-> TRUE,
          feature_count |-> s.val.feature_count, g |-> s.g, m |-> s.m]

\* upload_layer from "Generate layer ID and name" on; geojson is the outcome
\* of the structure validation
upload_wrapped(gfiles, mfiles, geojson, layer_id, now, io) ==
    IF geojson.exc # "none"
    THEN upload_failed(gfiles, mfiles, upload_except(geojson.exc), geojson.exc)
    ELSE upload_saved(layer_id,
                      save_layer(gfiles, mfiles, layer_id, geojson.val, now, io))

\* POST /layers/upload: status, the id generated, and the files afterwards
upload_layer(gfiles, mfiles, req, uuid, now, io) ==
    IF req.suffix \notin AcceptedSuffixes
    THEN upload_failed(gfiles, mfiles, 400, "suffix")
    ELSE IF ~req.content.utf8
    THEN upload_failed(gfiles, mfiles, upload_except("UnicodeDecodeError"),
                       "UnicodeDecodeError")
    ELSE IF ~req.content.json
    THEN upload_failed(gfiles, mfiles, upload_except("JSONDecodeError"),
                       "JSONDecodeError")
    ELSE upload_wrapped(gfiles, mfiles, wrap_geojson(req.content.value),
                        generate_layer_id(uuid), now, io)

\* an exception no handler catches becomes the server's 500 answer
unhandled(exc) == [status |-> 500, exc |-> exc, body |-> JNull]

\* GET /layers/{id}
get_layer(mfiles, layer_id) ==
    LET layer == db_get_layer(mfiles, layer_id)
    IN IF layer.exc # "none" THEN unhandled(layer.exc)
       ELSE IF layer.val = JNull
       THEN [status |-> 404, exc |-> "none", body |-> JNull]
       ELSE [status |-> 200, exc |-> "none", body |-> layer.val]

\* GET /layers/{id}/geojson
get_layer_geojson(gfiles, layer_id) ==
    LET geojson == db_get_layer_geojson(gfiles, layer_id)
    IN IF geojson.exc # "none" THEN unhandled(geojson.exc)
       ELSE IF ~Truthy(geojson.val)
       THEN [status |-> 404, exc |-> "none", body |-> JNull]
       ELSE [status |-> 200, exc |-> "none", body |-> geojson.val]

\* GET /layers for one order of the glob
list_layers(mfiles, order) ==
    LET layers == db_list_layers(mfiles, order)
    IN IF layers.exc # "none" THEN unhandled(layers.exc)
       ELSE [status |-> 200, exc |-> "none", body |-> layers.val]

\* DELETE /layers/{id}: status and the files afterwards
delete_layer(gfiles, mfiles, layer_id) ==
    LET layer == db_get_layer(mfiles, layer_id)
        d == db_delete_layer(gfiles, mfiles, layer_id)
    IN IF layer.exc # "none"
       THEN [status |-> 500, exc |-> layer.exc, g |-> gfiles, m |-> mfiles]
       ELSE IF layer.val = JNull
       THEN [status |-> 404, exc |-> "none", g |-> gfiles, m |-> mfiles]
       ELSE [status |-> 200, exc |-> "none", g |-> d.g, m |-> d.m]

----------------------------------------------------------------------------
(* The service, one request at a time *)

NoResponse ==
    [op |-> "none", id |-> 0, status |-> 0, exc |-> "none",
     req |-> NoRequest, body |-> JNull]

Pending == [exc |-> "pending", val |-> JNull]
Idle == [pc |-> "idle", id |-> 0, status |-> 0, exc |-> "none",
         raced |-> FALSE]

StoreInit ==
    /\ geojson_files = [i \in LayerIds |-> Absent]
    /\ meta_files = [i \in LayerIds |-> Absent]
    /\ resp = NoResponse
    /\ generated = [i \in LayerIds |-> 0]
    /\ created = 0
    /\ removed = 0
    /\ live = {}

Init ==
    /\ StoreInit
    /\ arg_features = JArr(<<>>)
    /\ ret_bounds = Pending
    /\ get_req = Idle
    /\ del_req = Idle

\* does an upload of req get as far as generate_layer_id and save_layer
ReachesSave(req) ==
    /\ req.suffix \in AcceptedSuffixes
    /\ req.content.utf8 /\ req.content.json
    /\ wrap_geojson(req.content.value).exc = "none"

\* the values a call can return to the handler of req: any of S when the
\* handler gets as far as the call, and one that is never read when not
DrawnFor(req, S) == IF ReachesSave(req) THEN S ELSE {CHOOSE x \in S : TRUE}

\* the number of ids 1..n generated so far
RECURSIVE Generated(_)
Generated(n) == IF n = 0 THEN 0 ELSE generated[n] + Generated(n - 1)

\* the state after POST /layers/upload of req answered r
Uploaded(req, r) ==
    /\ geojson_files' = r.g
    /\ meta_files' = r.m
    /\ resp' = [op |-> "upload",
                id |-> IF r.saved THEN r.layer_id ELSE 0,
                status |-> r.status, exc |-> r.exc, req |-> req,
                body |-> r.feature_count]
    /\ generated' = IF r.layer_id \in LayerIds
                    THEN [generated EXCEPT ![r.layer_id] = @ + 1]
                    ELSE generated
    /\ created' = IF r.saved THEN created + 1 ELSE created
    /\ live' = IF r.saved THEN live \cup {r.layer_id} ELSE live
    /\ UNCHANGED removed

\* POST /layers/upload, with the storage failing in one of the ways of ios
UploadWith(ios) ==
    /\ Generated(NumPrefix) < MaxUploads
    /\ \E req \in UploadRequests :
         \E uuid \in DrawnFor(req, Uuids), now \in DrawnFor(req, Instants),
            io \in DrawnFor(req, ios) :
              Uploaded(req, upload_layer(geojson_files, meta_files,
                                         req, uuid, now, io))

Upload ==
    /\ UploadWith(IoOutcomes)
    /\ UNCHANGED <<bounds_vars, race_vars>>

GetLayer ==
    /\ \E id \in LayerIds :
         LET r == get_layer(meta_files, id)
         IN resp' = [op |-> "get", id |-> id, status |-> r.status,
                     exc |-> r.exc, req |-> NoRequest, body |-> r.body]
    /\ UNCHANGED <<geojson_files, meta_files, generated, created, removed, live,
                   bounds_vars, race_vars>>

GetLayerGeojson ==
    /\ \E id \in LayerIds :
         LET r == get_layer_geojson(geojson_files, id)
         IN resp' = [op |-> "geojson", id |-> id, status |-> r.status,
                     exc |-> r.exc, req |-> NoRequest, body |-> r.body]
    /\ UNCHANGED <<geojson_files, meta_files, generated, created, removed, live,
                   bounds_vars, race_vars>>

ListLayers ==
    /\ \E order \in GlobOrders(meta_files) :
         LET r == list_layers(meta_files, order)
         IN resp' = [op |-> "list", id |-> 0, status |-> r.status,
                     exc |-> r.exc, req |-> NoRequest, body |-> r.body]
    /\ UNCHANGED <<geojson_files, meta_files, generated, created, removed, live,
                   bounds_vars, race_vars>>

\* the state after DELETE /layers/{id} answered r
Deleted(id, r) ==
    /\ geojson_files' = r.g
    /\ meta_files' = r.m
    /\ resp' = [op |-> "delete", id |-> id, status |-> r.status,
                exc |-> r.exc, req |-> NoRequest, body |-> JNull]
    /\ removed' = IF r.status = 200 THEN removed + 1 ELSE removed
    /\ live' = IF r.status = 200 THEN live \ {id} ELSE live

DeleteLayer ==
    /\ \E id \in LayerIds :
         Deleted(id, delete_layer(geojson_files, meta_files, id))
    /\ UNCHANGED <<generated, created, bounds_vars, race_vars>>

Next == Upload \/ GetLayer \/ GetLayerGeojson \/ ListLayers \/ DeleteLayer

Spec == Init /\ [][Next]_vars

----------------------------------------------------------------------------
(* calculate_bounds on generated feature sequences *)

CoordVals == 0..MaxCoord

\* positions, with and without an altitude, and the empty sequence
Leaves(vals) ==
    {Pt(x, y) : x \in vals \cup {PosInf}, y \in vals}
    \cup {Pt3(x, y, 7) : x \in vals, y \in vals}
    \cup {JArr(<<>>)}

RECURSIVE Trees(_, _)
Trees(d, vals) ==
    IF d = 0 THEN Leaves(vals)
    ELSE Leaves(vals)
         \cup {JArr(<<t>>) : t \in Trees(d - 1, vals)}
         \cup {JArr(<<t, u>>) : t \in Trees(d - 1, vals), u \in Leaves(vals)}

\* features that hold no coordinates member, or none that is a sequence
BareFeatures ==
    {JObj([type |-> JStr("Feature")]),
     JObj([type |-> JStr("Feature"), geometry |-> JNull]),
     JObj([type |-> JStr("Feature"), geometry |-> JObj(EmptyObj)]),
     JObj([type |-> JStr("Feature"),
           geometry |-> JObj([type |-> JStr("Point")])])}

FeaturesOver(trees) ==
    BareFeatures \cup {Feature(Geometry("Shape", t)) : t \in trees}

FeatureSeqs(d, vals) ==
    {JArr(<<>>)}
    \cup {JArr(<<f>>) : f \in FeaturesOver(Trees(d, vals))}
    \cup {JArr(<<f, g>>) : f \in FeaturesOver(Trees(d, vals)),
                           g \in FeaturesOver(Leaves(vals))}

BoundsInit ==
    /\ StoreInit
    /\ arg_features \in FeatureSeqs(MaxDepth, CoordVals)
    /\ ret_bounds = Pending
    /\ get_req = Idle
    /\ del_req = Idle

CalculateBounds ==
    /\ ret_bounds.exc = "pending"
    /\ ret_bounds' = calculate_bounds(arg_features)
    /\ UNCHANGED <<arg_features, store_vars, race_vars>>

BoundsNext == CalculateBounds

BoundsSpec == BoundsInit /\ [][BoundsNext]_vars

----------------------------------------------------------------------------
(* GET /layers/{id} and DELETE /layers/{id} served at the same time.  Each *)
(* step is one call on the file system; uploads here meet no I/O error.    *)

UploadNoIoError ==
    /\ UploadWith({"ok"})
    /\ UNCHANGED <<bounds_vars, race_vars>>

InFlight(r) == r.pc \notin {"idle", "done"}

\* get_layer: meta_path.exists()
GetExists ==
    /\ ~InFlight(get_req)
    /\ \E id \in LayerIds :
         get_req' =
            IF meta_files[id].state = "absent"
            THEN [pc |-> "done", id |-> id, status |-> 404, exc |-> "none",
                  raced |-> InFlight(del_req) /\ del_req.id = id]
            ELSE [pc |-> "open", id |-> id, status |-> 0, exc |-> "none",
                  raced |-> InFlight(del_req) /\ del_req.id = id]
    /\ UNCHANGED <<store_vars, bounds_vars, del_req>>

\* get_layer: open(meta_path) and json.load, then the handler's answer
GetRead ==
    /\ get_req.pc = "open"
    /\ LET layer == read_json(meta_files[get_req.id])
       IN get_req' = [get_req EXCEPT
                        !.pc = "done",
                        !.status = IF layer.exc = "none" THEN 200 ELSE 500,
                        !.exc = layer.exc]
    /\ UNCHANGED <<store_vars, bounds_vars, del_req>>

\* the handler delete_layer: db.get_layer's meta_path.exists()
DelExists ==
    /\ ~InFlight(del_req)
    /\ \E id \in LayerIds :
         /\ del_req' =
              IF meta_files[id].state = "absent"
              THEN [Idle EXCEPT !.pc = "done", !.id = id, !.status = 404]
              ELSE [Idle EXCEPT !.pc = "open", !.id = id]
         /\ get_req' = IF InFlight(get_req) /\ get_req.id = id
                       THEN [get_req EXCEPT !.raced = TRUE]
                       ELSE get_req
    /\ UNCHANGED <<store_vars, bounds_vars>>

\* the handler delete_layer: db.get_layer's open and json.load
DelRead ==
    /\ del_req.pc = "open"
    /\ LET layer == read_json(meta_files[del_req.id])
       IN del_req' = IF layer.exc = "none"
                     THEN [del_req EXCEPT !.pc = "unlink_geojson"]
                     ELSE [del_req EXCEPT !.pc = "done", !.status = 500,
                                          !.exc = layer.exc]
    /\ UNCHANGED <<store_vars, bounds_vars, get_req>>

\* db.delete_layer: if geojson_path.exists(): geojson_path.unlink()
DelUnlinkGeojson ==
    /\ del_req.pc = "unlink_geojson"
    /\ geojson_files' = [geojson_files EXCEPT ![del_req.id] = Absent]
    /\ del_req' = [del_req EXCEPT !.pc = "unlink_meta"]
    /\ UNCHANGED <<meta_files, resp, generated, created, removed, live,
                   bounds_vars, get_req>>

\* db.delete_layer: if meta_path.exists(): meta_path.unlink()
DelUnlinkMeta ==
    /\ del_req.pc = "unlink_meta"
    /\ meta_files' = [meta_files EXCEPT ![del_req.id] = Absent]
    /\ del_req' = [del_req EXCEPT !.pc = "done", !.status = 200]
    /\ removed' = removed + 1
    /\ live' = live \ {del_req.id}
    /\ UNCHANGED <<geojson_files, resp, generated, created, bounds_vars,
                   get_req>>

RaceNext ==
    \/ UploadNoIoError
    \/ GetExists \/ GetRead
    \/ DelExists \/ DelRead \/ DelUnlinkGeojson \/ DelUnlinkMeta

RaceSpec == Init /\ [][RaceNext]_vars

----------------------------------------------------------------------------
(* Vocabulary of the properties *)

\* the coordinate pairs (x, y) a coordinates value holds
RECURSIVE PairsIn(_)
PairsIn(node) ==
    IF node.k # "arr" THEN {}
    ELSE IF Len(node.v) >= 2 /\ node.v[1].k = "num" /\ node.v[2].k = "num"
    THEN {<<node.v[1].v, node.v[2].v>>}
    ELSE UNION {PairsIn(node.v[i]) : i \in 1..Len(node.v)}

PairsOfFeature(f) ==
    IF /\ f.k = "obj"
       /\ "geometry" \in DOMAIN f.v
       /\ f.v.geometry.k = "obj"
       /\ "coordinates" \in DOMAIN f.v.geometry.v
    THEN PairsIn(f.v.geometry.v.coordinates)
    ELSE {}

PairsOf(features) ==
    UNION {PairsOfFeature(features.v[i]) : i \in 1..Len(features.v)}

\* [minX, minY, maxX, maxY] is the minimal box around the pairs
IsMinimalBox(box, pairs) ==
    /\ Len(box) = 4
    /\ box[1] <= box[3] /\ box[2] <= box[4]
    /\ \A p \in pairs : box[1] <= p[1] /\ p[1] <= box[3]
                        /\ box[2] <= p[2] /\ p[2] <= box[4]
    /\ \E p \in pairs : p[1] = box[1]
    /\ \E p \in pairs : p[2] = box[2]
    /\ \E p \in pairs : p[1] = box[3]
    /\ \E p \in pairs : p[2] = box[4]

\* the feature sequence of a stored collection
FeaturesOf(doc) ==
    IF doc.k = "obj" /\ "features" \in DOMAIN doc.v /\ doc.v.features.k = "arr"
    THEN doc.v.features.v
    ELSE <<>>

\* the type of the first feature's geometry, or none
FirstGeometryType(doc) ==
    LET fs == FeaturesOf(doc)
    IN IF /\ Len(fs) > 0
          /\ "geometry" \in DOMAIN fs[1].v
          /\ fs[1].v.geometry.k = "obj"
          /\ "type" \in DOMAIN fs[1].v.geometry.v
       THEN fs[1].v.geometry.v.type
       ELSE JNull

\* the canonical feature-collection shape of an accepted value
Canonical(value) ==
    IF "type" \in DOMAIN value.v /\ value.v.type = JStr("FeatureCollection")
    THEN value
    ELSE IF "type" \in DOMAIN value.v /\ value.v.type = JStr("Feature")
    THEN FeatureCollection(<<value>>)
    ELSE FeatureCollection(<<Feature(value)>>)

\* a JSON value that is no collection, no feature and holds no coordinates
IsInvalidShape(value) ==
    \/ value.k # "obj"
    \/ /\ "coordinates" \notin DOMAIN value.v
       /\ \/ "type" \notin DOMAIN value.v
          \/ value.v.type \notin {JStr("FeatureCollection"), JStr("Feature")}

\* the instant a created_at text denotes, in half seconds
InstantOf(text) ==
    2 * (10 * (text[1] - DigitZero) + (text[2] - DigitZero))
    + (IF Len(text) > 2 THEN 1 ELSE 0)

\* the number of records List would return
RecordCount(mfiles) ==
    Cardinality({i \in LayerIds : mfiles[i].state # "absent"})

\* every upload that reached save_layer succeeded, so the history holds
\* only successful creates and successful deletes
OnlySuccessfulCreates == Generated(NumPrefix) = created

\* List answered with the created-and-not-deleted records, newest first
ListIsExact ==
    /\ resp.status = 200
    /\ Len(resp.body) = created - removed
    /\ {resp.body[i].id : i \in 1..Len(resp.body)} = live
    /\ \A i, j \in 1..Len(resp.body) :
         i < j => InstantOf(resp.body[i].created_at)
                    >= InstantOf(resp.body[j].created_at)

----------------------------------------------------------------------------
(* Properties *)

\* C1: for every identifier the raw-data artifact and the metadata artifact
\* either both exist, completely written, or both do not exist, whatever
\* uploads (succeeding or failing inside save_layer) and deletes happened.
C1_ArtifactsBothOrNeither ==
    \A id \in LayerIds :
        \/ geojson_files[id].state = "absent" /\ meta_files[id].state = "absent"
        \/ geojson_files[id].state = "complete"
           /\ meta_files[id].state = "complete"

\* C2: an upload with an accepted suffix whose bytes parse as JSON to a value
\* of invalid shape is answered 400 and creates no record.
C2_InvalidShapeIs400 ==
    [][(/\ resp'.op = "upload"
        /\ resp'.req.suffix \in AcceptedSuffixes
        /\ resp'.req.content.utf8 /\ resp'.req.content.json
        /\ IsInvalidShape(resp'.req.content.value))
       => (/\ resp'.status = 400
           /\ geojson_files' = geojson_files
           /\ meta_files' = meta_files)]_vars

\* C3: an upload whose bytes are not JSON text, or not text at all, is
\* answered 400 and List returns as many records after it as before.
C3_InvalidEncodingIs400 ==
    [][(/\ resp'.op = "upload"
        /\ resp'.req.suffix \in AcceptedSuffixes
        /\ ~(resp'.req.content.utf8 /\ resp'.req.content.json))
       => (/\ resp'.status = 400
           /\ RecordCount(meta_files') = RecordCount(meta_files))]_vars

C5_MetadataMatchesRawData ==
    \A id \in LayerIds :
        get_layer(meta_files, id).status = 200 =>
            /\ get_layer_geojson(geojson_files, id).status = 200
            /\ LET record == get_layer(meta_files, id).body
                   raw == get_layer_geojson(geojson_files, id).body
               IN /\ record.feature_count = Len(FeaturesOf(raw))
                  /\ record.geometry_type = FirstGeometryType(raw)
                  /\ calculate_bounds(JArr(FeaturesOf(raw))).exc = "none"
                  /\ record.bounds = calculate_bounds(JArr(FeaturesOf(raw))).val

\* C6: a Delete of an identifier whose record exists succeeds, and after it
\* Get and GetRawData of that identifier both answer 404; the store's delete
\* removes each artifact whether or not the other one is present.
C6_DeleteThenNotFound ==
    [][/\ \A id \in LayerIds :
            LET d == db_delete_layer(geojson_files, meta_files, id)
            IN /\ d.g[id].state = "absent" /\ d.m[id].state = "absent"
               /\ d.deleted = (geojson_files[id].state # "absent"
                               \/ meta_files[id].state # "absent")
       /\ (resp'.op = "delete"
           /\ get_layer(meta_files, resp'.id).status = 200)
          => (/\ resp'.status = 200
              /\ get_layer(meta_files', resp'.id).status = 404
              /\ get_layer_geojson(geojson_files', resp'.id).status = 404)]_vars

C6_Witness ==
    /\ resp.op = "delete" /\ resp.status = 200
    /\ generated[resp.id] > 0
    /\ geojson_files[resp.id].state = "absent"
    /\ meta_files[resp.id].state = "absent"

\* C7: for every feature sequence that holds at least one coordinate pair,
\* calculate_bounds returns the minimal box [minX, minY, maxX, maxY] around
\* the first two elements of every pair.
C7_BoundsEncloseEveryPair ==
    (ret_bounds.exc # "pending" /\ PairsOf(arg_features) # {})
        => (/\ ret_bounds.exc = "none"
            /\ IsMinimalBox(ret_bounds.val, PairsOf(arg_features)))

\* C8: for every feature sequence that holds no coordinate pair,
\* calculate_bounds completes without raising and returns "no bounds".
C8_NoPairsNoBounds ==
    (ret_bounds.exc # "pending" /\ PairsOf(arg_features) = {})
        => (/\ ret_bounds.exc = "none"
            /\ ret_bounds.val = NoBounds)

\* C9: every successful upload stores the canonical feature collection of
\* the uploaded value, and the upload of {"type":"Point","coordinates":[10,20]}
\* yields geometry_type "Point", feature_count 1 and bounds [10,20,10,20].
C9_StoresCanonicalCollection ==
    (resp.op = "upload" /\ resp.status = 200)
        => (/\ geojson_files[resp.id].state = "complete"
            /\ geojson_files[resp.id].doc = Canonical(resp.req.content.value)
            /\ meta_files[resp.id].state = "complete"
            /\ resp.req.content.value = PointDoc
                 => (/\ meta_files[resp.id].doc.geometry_type = JStr("Point")
                     /\ meta_files[resp.id].doc.feature_count = 1
                     /\ meta_files[resp.id].doc.bounds = <<10, 20, 10, 20>>))

C9_Witness ==
    /\ resp.op = "upload" /\ resp.status = 200
    /\ resp.req.content.value = PointDoc
    /\ geojson_files[resp.id].doc = FeatureCollection(<<Feature(PointDoc)>>)

\* C10: a Get that runs at the same time as a Delete of the same identifier
\* ends with the complete record or with NotFound, never otherwise.
C10_GetRacingDelete ==
    (get_req.pc = "done" /\ get_req.raced)
        => get_req.status \in {200, 404}

====
